---- MODULE Spec2Model ----
(***************************************************************************)
(* A model of parsers/ENTSOE.py: the query operations, the response        *)
(* decoders, the production category aggregation and validation, and the   *)
(* seven public fetch operations.                                          *)
(*                                                                         *)
(* Instants are integers: minutes since 2023-01-01T00:00Z.  An XML         *)
(* document is modelled as the tree BeautifulSoup exposes: its <text>      *)
(* elements and its <timeseries> elements, each with a resolution string,  *)
(* a start instant, the inBiddingZone marker, a currency and its points.   *)
(* Quantities are integers (the code reads them with float()).             *)
(***************************************************************************)
EXTENDS Integers, Sequences, FiniteSets, TLC

VARIABLES
    pc,      \* "idle" before a fetch operation is called, "done" after it returned or raised
    call,    \* the call: operation name and arguments
    now,     \* the instant arrow.now() gives during the call
    http,    \* what the transparency platform answers to each query of the call
    issued,  \* the queries the call issued, in order
    ret      \* what the call returned or raised

vars == <<pc, call, now, http, issued, ret>>

(***************************************************************************)
(* Bounds of the model.                                                    *)
(***************************************************************************)
\* points of one sub-series carry positions 1..MaxPosition
MaxPosition == 3
\* quantities of points are 0..MaxQuantity
MaxQuantity == 2

(***************************************************************************)
(* Python values.                                                          *)
(***************************************************************************)
\* an optional number: None, or a value
None == [some |-> FALSE, v |-> 0]
Some(x) == [some |-> TRUE, v |-> x]

\* the result of a call: a value, None, or a raised exception
Returned(kind, records) == [kind |-> kind, records |-> records, exc |-> "", msg |-> <<>>]
ReturnNone == Returned("None", <<>>)
Raise(exc, msg) == [kind |-> "raise", records |-> <<>>, exc |-> exc, msg |-> msg]

\* F applied to the value of x: x is evaluated once, however often F uses it
With(x, F(_)) == CHOOSE r \in {F(v) : v \in {x}} : TRUE

Min(S) == CHOOSE x \in S : \A y \in S : x <= y
Max(S) == CHOOSE x \in S : \A y \in S : x >= y
Abs(x) == IF x < 0 THEN -x ELSE x

\* list.index(x): the first index holding x (0 when x is not in the list)
Index(list, x) ==
    IF \E i \in 1..Len(list) : list[i] = x
    THEN Min({i \in 1..Len(list) : list[i] = x})
    ELSE 0


(***************************************************************************)
(* Static tables.                                                          *)
(***************************************************************************)
ParameterCodes ==
    <<"B01", "B02", "B03", "B04", "B05", "B06", "B07", "B08", "B09", "B10",
      "B11", "B12", "B13", "B14", "B15", "B16", "B17", "B18", "B19", "B20">>

ENTSOE_PARAMETER_DESC ==
    [k \in {ParameterCodes[i] : i \in 1..Len(ParameterCodes)} |->
        CASE k = "B01" -> "Biomass"
          [] k = "B02" -> "Fossil Brown coal/Lignite"
          [] k = "B03" -> "Fossil Coal-derived gas"
          [] k = "B04" -> "Fossil Gas"
          [] k = "B05" -> "Fossil Hard coal"
          [] k = "B06" -> "Fossil Oil"
          [] k = "B07" -> "Fossil Oil shale"
          [] k = "B08" -> "Fossil Peat"
          [] k = "B09" -> "Geothermal"
          [] k = "B10" -> "Hydro Pumped Storage"
          [] k = "B11" -> "Hydro Run-of-river and poundage"
          [] k = "B12" -> "Hydro Water Reservoir"
          [] k = "B13" -> "Marine"
          [] k = "B14" -> "Nuclear"
          [] k = "B15" -> "Other renewable"
          [] k = "B16" -> "Solar"
          [] k = "B17" -> "Waste"
          [] k = "B18" -> "Wind Offshore"
          [] k = "B19" -> "Wind Onshore"
          [] k = "B20" -> "Other"]

\* the zone keys the model calls with, in lexicographic order (the order sorted() gives)
ZoneKeys == <<"BE", "DE", "DK", "ES", "FR", "GB", "GR", "PL", "PT", "UA">>
Zones == {ZoneKeys[i] : i \in 1..Len(ZoneKeys)}

ENTSOE_DOMAIN_MAPPINGS ==
    [z \in Zones |->
        CASE z = "BE" -> "10YBE----------2"
          [] z = "DE" -> "10Y1001A1001A83F"
          [] z = "DK" -> "10Y1001A1001A65H"
          [] z = "ES" -> "10YES-REE------0"
          [] z = "FR" -> "10YFR-RTE------C"
          [] z = "GB" -> "10YGB----------A"
          [] z = "GR" -> "10YGR-HTSO-----Y"
          [] z = "PL" -> "10YPL-AREA-----S"
          [] z = "PT" -> "10YPT-REN------W"
          [] z = "UA" -> "10YUA-WEPS-----0"]

\* sorted([zone_key1, zone_key2]) on strings
SortedZoneKeys(zone_key1, zone_key2) ==
    IF Index(ZoneKeys, zone_key1) <= Index(ZoneKeys, zone_key2)
    THEN <<zone_key1, zone_key2>>
    ELSE <<zone_key2, zone_key1>>

\* ENTSOE_EXCHANGE_DOMAIN_OVERRIDE: the keys it holds, and its entry
HasDomainOverride(key) == key = <<"PL", "UA">>
ENTSOE_EXCHANGE_DOMAIN_OVERRIDE(key) == <<ENTSOE_DOMAIN_MAPPINGS["PL"], "10Y1001A1001A869">>

(***************************************************************************)
(* Documents and responses.                                                *)
(***************************************************************************)
PT60M == <<"P", "T", "6", "0", "M">>
PT15M == <<"P", "T", "1", "5", "M">>
P1D == <<"P", "1", "D">>

NoMatchingText == <<"No", "matching", "data", "found">>

Point(position, quantity) == [position |-> position, quantity |-> quantity]
TimeSeries(resolution, start, inBiddingZone, points) ==
    [resolution |-> resolution, start |-> start, inBiddingZone |-> inBiddingZone,
     currency |-> "EUR", points |-> points]
\* response.text: the empty string, or a document
Document(texts, timeseries) == [empty |-> FALSE, texts |-> texts, timeseries |-> timeseries]
EmptyText == [empty |-> TRUE, texts |-> <<>>, timeseries |-> <<>>]
Response(ok, text) == [ok |-> ok, text |-> text]

\* what a query operation hands to its caller: the text, None, or QueryError
QueryText(text) == [kind |-> "text", text |-> text, msg |-> <<>>]
QueryNone == [kind |-> "None", text |-> EmptyText, msg |-> <<>>]
QueryRaise(msg) == [kind |-> "raise", text |-> EmptyText, msg |-> msg]

(***************************************************************************)
(* check_response and the query operations.                                *)
(***************************************************************************)
\* 'No matching data found' in error_text
ContainsNoMatching(error_text) ==
    \E i \in 1..Len(error_text) :
        /\ i + Len(NoMatchingText) - 1 <= Len(error_text)
        /\ SubSeq(error_text, i, i + Len(NoMatchingText) - 1) = NoMatchingText

check_response(response, function_name) ==
    LET text == response.text.texts IN
    IF Len(text) > 0
    THEN IF ContainsNoMatching(text[1])
         THEN QueryNone
         ELSE QueryRaise(<<function_name>> \o text[1])
    ELSE QueryNone

\* the shared tail of every query_* operation
QueryResult(response, function_name) ==
    IF response.ok THEN QueryText(response.text) ELSE check_response(response, function_name)

Params(documentType, processType, psrType, in_Domain, out_Domain, outBiddingZone_Domain) ==
    [documentType |-> documentType, processType |-> processType, psrType |-> psrType,
     in_Domain |-> in_Domain, out_Domain |-> out_Domain,
     outBiddingZone_Domain |-> outBiddingZone_Domain]

consumption_params(domain) == Params("A65", "A16", "", "", "", domain)
production_params(psr_type, in_domain) == Params("A75", "A16", psr_type, in_domain, "", "")
exchange_params(in_domain, out_domain) == Params("A11", "", "", in_domain, out_domain, "")
exchange_forecast_params(in_domain, out_domain) == Params("A09", "", "", in_domain, out_domain, "")
price_params(domain) == Params("A44", "", "", domain, domain, "")
generation_forecast_params(in_domain) == Params("A71", "A01", "", in_domain, "", "")
consumption_forecast_params(in_domain) == Params("A65", "A01", "", "", "", in_domain)

query_consumption(answers, domain) ==
    QueryResult(answers[consumption_params(domain)], "query_consumption")
query_production(answers, psr_type, in_domain) ==
    QueryResult(answers[production_params(psr_type, in_domain)], "query_production")
query_exchange(answers, in_domain, out_domain) ==
    QueryResult(answers[exchange_params(in_domain, out_domain)], "query_exchange")
query_exchange_forecast(answers, in_domain, out_domain) ==
    QueryResult(answers[exchange_forecast_params(in_domain, out_domain)], "query_exchange_forecast")
query_price(answers, domain) ==
    QueryResult(answers[price_params(domain)], "query_price")
query_generation_forecast(answers, in_domain) ==
    QueryResult(answers[generation_forecast_params(in_domain)], "query_generation_forecast")
query_consumption_forecast(answers, in_domain) ==
    QueryResult(answers[consumption_forecast_params(in_domain)], "query_generation_forecast")

(***************************************************************************)
(* datetime_from_position.                                                 *)
(***************************************************************************)
Digits == <<"0", "1", "2", "3", "4", "5", "6", "7", "8", "9">>
IsDigit(c) == Index(Digits, c) > 0

\* int() of a string of digits
RECURSIVE ToInt(_)
ToInt(ds) ==
    IF ds = <<>> THEN 0
    ELSE 10 * ToInt(SubSeq(ds, 1, Len(ds) - 1)) + (Index(Digits, ds[Len(ds)]) - 1)

\* re.search('PT(\d+)([M])', resolution): the matches <<i, j>>, the digits being resolution[i+2..j]
ResolutionMatches(resolution) ==
    {m \in (1..Len(resolution)) \X (1..Len(resolution)) :
        /\ m[1] + 2 <= m[2]
        /\ m[2] + 1 <= Len(resolution)
        /\ resolution[m[1]] = "P"
        /\ resolution[m[1] + 1] = "T"
        /\ \A k \in (m[1] + 2)..m[2] : IsDigit(resolution[k])
        /\ resolution[m[2] + 1] = "M"}

\* the instant of a point taking every minute duration for an hour
datetime_from_position_Hourly(start, position, resolution) ==
    IF ResolutionMatches(resolution) # {}
    THEN [ok |-> TRUE, at |-> start + position * 60]
    ELSE [ok |-> FALSE, at |-> 0]

\* the instant of a point counted from position 1 at the start of the sub-series
datetime_from_position_FromStart(start, position, resolution) ==
    IF ResolutionMatches(resolution) # {}
    THEN [ok |-> TRUE, at |-> start + (position - 1) * 60]
    ELSE [ok |-> FALSE, at |-> 0]

\* [ok, at]: the instant, or NotImplementedError
datetime_from_position(start, position, resolution) ==
    LET ms == ResolutionMatches(resolution) IN
    IF ms # {}
    THEN LET m == CHOOSE x \in ms : \A y \in ms : x[1] <= y[1]
             digits == ToInt(SubSeq(resolution, m[1] + 2, m[2]))
         IN [ok |-> TRUE, at |-> start + position * digits]
    ELSE [ok |-> FALSE, at |-> 0]

(***************************************************************************)
(* The response decoders.                                                  *)
(***************************************************************************)
\* what a decoder hands back: None, the parallel lists, or NotImplementedError
Parsed(values, datetimes) ==
    [kind |-> "lists", values |-> values, datetimes |-> datetimes, currencies |-> <<>>, msg |-> <<>>]
ParsedPrice(prices, currencies, datetimes) ==
    [kind |-> "lists", values |-> prices, datetimes |-> datetimes, currencies |-> currencies, msg |-> <<>>]
ParsedNone == [kind |-> "None", values |-> <<>>, datetimes |-> <<>>, currencies |-> <<>>, msg |-> <<>>]
ParsedRaise(exc, msg) ==
    [kind |-> exc, values |-> <<>>, datetimes |-> <<>>, currencies |-> <<>>, msg |-> msg]

\* the points of a document in document order, each with its sub-series' fields
RECURSIVE Entries(_)
Entries(timeseries) ==
    IF timeseries = <<>> THEN <<>>
    ELSE LET ts == Head(timeseries) IN
         [i \in 1..Len(ts.points) |->
            [resolution |-> ts.resolution, start |-> ts.start,
             is_production |-> ts.inBiddingZone, currency |-> ts.currency,
             position |-> ts.points[i].position, quantity |-> ts.points[i].quantity]]
         \o Entries(Tail(timeseries))

\* the loop of parse_consumption, parse_price, parse_generation_forecast and
\* parse_consumption_forecast: every point is appended
AppendStep(e, acc) ==
    LET dt == datetime_from_position(e.start, e.position, e.resolution) IN
    IF ~dt.ok THEN ParsedRaise("NotImplementedError", e.resolution)
    ELSE ParsedPrice(Append(acc.values, e.quantity), Append(acc.currencies, e.currency),
                     Append(acc.datetimes, dt.at))

RECURSIVE AppendLoop(_, _)
AppendLoop(entries, acc) ==
    IF entries = <<>> \/ acc.kind # "lists" THEN acc
    ELSE With(AppendStep(Head(entries), acc), LAMBDA next : AppendLoop(Tail(entries), next))

\* not xml_text
Falsy(q) == q.kind = "None" \/ q.text.empty

parse_consumption(q) ==
    IF Falsy(q) THEN ParsedNone
    ELSE With(AppendLoop(Entries(q.text.timeseries), ParsedPrice(<<>>, <<>>, <<>>)),
              LAMBDA r : IF r.kind = "lists" THEN Parsed(r.values, r.datetimes) ELSE r)

\* one point of parse_production; acc holds productions and datetimes
ProductionStep(e, acc) ==
    LET dt == datetime_from_position(e.start, e.position, e.resolution)
        i == Index(acc.datetimes, dt.at)
    IN IF ~dt.ok THEN ParsedRaise("NotImplementedError", e.resolution)
       ELSE IF i > 0
       THEN Parsed([acc.values EXCEPT ![i] = IF e.is_production THEN @ + e.quantity
                                                               ELSE @ - e.quantity],
                   acc.datetimes)
       ELSE Parsed(Append(acc.values, IF e.is_production THEN e.quantity ELSE -1 * e.quantity),
                   Append(acc.datetimes, dt.at))

RECURSIVE ProductionLoop(_, _)
ProductionLoop(entries, acc) ==
    IF entries = <<>> \/ acc.kind # "lists" THEN acc
    ELSE With(ProductionStep(Head(entries), acc), LAMBDA next : ProductionLoop(Tail(entries), next))

parse_production(q) ==
    IF Falsy(q) THEN ParsedNone
    ELSE ProductionLoop(Entries(q.text.timeseries), Parsed(<<>>, <<>>))

\* one point of parse_exchange that adds the quantity whatever the direction
ExchangeStep_Unsigned(e, is_import, acc) ==
    LET dt == datetime_from_position(e.start, e.position, e.resolution)
        i == Index(acc.datetimes, dt.at)
    IN IF ~dt.ok THEN ParsedRaise("NotImplementedError", e.resolution)
       ELSE IF i > 0
       THEN Parsed([acc.values EXCEPT ![i] = @ + e.quantity], acc.datetimes)
       ELSE Parsed(Append(acc.values, e.quantity), Append(acc.datetimes, dt.at))

\* one point of parse_exchange that replaces the quantity of a known datetime
ExchangeStep_Overwrite(e, is_import, acc) ==
    LET quantity == IF is_import THEN e.quantity ELSE e.quantity * (-1)
        dt == datetime_from_position(e.start, e.position, e.resolution)
        i == Index(acc.datetimes, dt.at)
    IN IF ~dt.ok THEN ParsedRaise("NotImplementedError", e.resolution)
       ELSE IF i > 0
       THEN Parsed([acc.values EXCEPT ![i] = quantity], acc.datetimes)
       ELSE Parsed(Append(acc.values, quantity), Append(acc.datetimes, dt.at))

\* one point of parse_exchange; acc holds quantities and datetimes
ExchangeStep(e, is_import, acc) ==
    LET quantity == IF is_import THEN e.quantity ELSE e.quantity * (-1)
        dt == datetime_from_position(e.start, e.position, e.resolution)
        i == Index(acc.datetimes, dt.at)
    IN IF ~dt.ok THEN ParsedRaise("NotImplementedError", e.resolution)
       ELSE IF i > 0
       THEN Parsed([acc.values EXCEPT ![i] = @ + quantity], acc.datetimes)
       ELSE Parsed(Append(acc.values, quantity), Append(acc.datetimes, dt.at))

RECURSIVE ExchangeLoop(_, _, _)
ExchangeLoop(entries, is_import, acc) ==
    IF entries = <<>> \/ acc.kind # "lists" THEN acc
    ELSE With(ExchangeStep(Head(entries), is_import, acc),
              LAMBDA next : ExchangeLoop(Tail(entries), is_import, next))

\* quantities, datetimes: the accumulators handed in (<<>> for None: "quantities or []")
parse_exchange(q, is_import, quantities, datetimes) ==
    IF Falsy(q) THEN ParsedNone
    ELSE ExchangeLoop(Entries(q.text.timeseries), is_import, Parsed(quantities, datetimes))

parse_price(q) ==
    IF Falsy(q) THEN ParsedNone
    ELSE AppendLoop(Entries(q.text.timeseries), ParsedPrice(<<>>, <<>>, <<>>))

parse_generation_forecast(q) ==
    IF Falsy(q) THEN ParsedNone
    ELSE With(AppendLoop(Entries(q.text.timeseries), ParsedPrice(<<>>, <<>>, <<>>)),
              LAMBDA r : IF r.kind = "lists" THEN Parsed(r.values, r.datetimes) ELSE r)

parse_consumption_forecast(q) ==
    IF Falsy(q) THEN ParsedNone
    ELSE With(AppendLoop(Entries(q.text.timeseries), ParsedPrice(<<>>, <<>>, <<>>)),
              LAMBDA r : IF r.kind = "lists" THEN Parsed(r.values, r.datetimes) ELSE r)

\* "if parsed:": None is falsy, a tuple of lists is truthy even when the lists are empty
Truthy(parsed) == parsed.kind = "lists"

(***************************************************************************)
(* Production: category aggregation and validation.                        *)
(***************************************************************************)
\* dict.get(key, default)
Get(values, key, default) == IF key \in DOMAIN values THEN values[key] ELSE default
\* dict.get(key, None)
GetOrNone(values, key) == IF key \in DOMAIN values THEN Some(values[key]) ELSE None

get_biomass(values) ==
    IF "Biomass" \in DOMAIN values \/ "Fossil Peat" \in DOMAIN values \/ "Waste" \in DOMAIN values
    THEN Some(Get(values, "Biomass", 0) + Get(values, "Fossil Peat", 0) + Get(values, "Waste", 0))
    ELSE None

\* coal with a combined value of 0 taken for absent
get_coal_ZeroAbsent(values) ==
    LET value == Get(values, "Fossil Brown coal/Lignite", 0) + Get(values, "Fossil Hard coal", 0)
    IN IF value # 0 THEN Some(value) ELSE None

get_coal(values) ==
    IF "Fossil Brown coal/Lignite" \in DOMAIN values \/ "Fossil Hard coal" \in DOMAIN values
    THEN Some(Get(values, "Fossil Brown coal/Lignite", 0) + Get(values, "Fossil Hard coal", 0))
    ELSE None

get_gas(values) ==
    IF "Fossil Coal-derived gas" \in DOMAIN values \/ "Fossil Gas" \in DOMAIN values
    THEN Some(Get(values, "Fossil Coal-derived gas", 0) + Get(values, "Fossil Gas", 0))
    ELSE None

get_hydro(values) ==
    IF "Hydro Run-of-river and poundage" \in DOMAIN values \/ "Hydro Water Reservoir" \in DOMAIN values
    THEN Some(Get(values, "Hydro Run-of-river and poundage", 0) + Get(values, "Hydro Water Reservoir", 0))
    ELSE None

get_hydro_storage(storage_values) ==
    IF "Hydro Pumped Storage" \in DOMAIN storage_values
    THEN Some(-1 * Get(storage_values, "Hydro Pumped Storage", 0))
    ELSE None

\* oil without the sentinel
get_oil_NoSentinel(values) ==
    IF "Fossil Oil" \in DOMAIN values \/ "Fossil Oil shale" \in DOMAIN values
    THEN Some(Get(values, "Fossil Oil", 0) + Get(values, "Fossil Oil shale", 0))
    ELSE None

get_oil(values) ==
    IF "Fossil Oil" \in DOMAIN values \/ "Fossil Oil shale" \in DOMAIN values
    THEN LET value == Get(values, "Fossil Oil", 0) + Get(values, "Fossil Oil shale", 0) IN
         IF value # -1 THEN Some(value) ELSE None
    ELSE None

get_wind(values) ==
    IF "Wind Onshore" \in DOMAIN values \/ "Wind Offshore" \in DOMAIN values
    THEN Some(Get(values, "Wind Onshore", 0) + Get(values, "Wind Offshore", 0))
    ELSE None

get_geothermal(values) ==
    IF "Geothermal" \in DOMAIN values THEN Some(Get(values, "Geothermal", 0)) ELSE None

get_unknown(values) ==
    IF "Marine" \in DOMAIN values \/ "Other renewable" \in DOMAIN values \/ "Other" \in DOMAIN values
    THEN Some(Get(values, "Marine", 0) + Get(values, "Other renewable", 0) + Get(values, "Other", 0))
    ELSE None

\* the 'production' bundle of a record
ProductionBundle(production_values) ==
    [biomass |-> get_biomass(production_values),
     coal |-> get_coal(production_values),
     gas |-> get_gas(production_values),
     hydro |-> get_hydro(production_values),
     nuclear |-> GetOrNone(production_values, "Nuclear"),
     oil |-> get_oil(production_values),
     solar |-> GetOrNone(production_values, "Solar"),
     wind |-> get_wind(production_values),
     geothermal |-> get_geothermal(production_values),
     unknown |-> get_unknown(production_values)]

\* the record fetch_production appends for one date; by_code is production_hashmap[date]
ProductionRecord(zone_key, production_date, by_code) ==
    LET labels == {ENTSOE_PARAMETER_DESC[k] : k \in DOMAIN by_code}
        production_values ==
            [l \in labels |-> by_code[CHOOSE k \in DOMAIN by_code : ENTSOE_PARAMETER_DESC[k] = l]]
    IN [zoneKey |-> zone_key,
        datetime |-> production_date,
        production |-> ProductionBundle(production_values),
        storage |-> [hydro |-> get_hydro_storage(production_values)],
        source |-> "entsoe.eu"]

\* the rule testing truthiness instead of presence
validate_production_Truthy(datapoint) ==
    LET p == datapoint.production
        truthy(x) == x.some /\ x.v # 0
    IN
    IF datapoint.zoneKey \in {"GB", "GR", "PT"} THEN truthy(p.coal) /\ truthy(p.gas)
    ELSE IF datapoint.zoneKey = "BE" THEN truthy(p.nuclear) /\ truthy(p.gas)
    ELSE IF datapoint.zoneKey = "ES" THEN truthy(p.coal) /\ truthy(p.nuclear)
    ELSE IF datapoint.zoneKey = "DK" THEN truthy(p.coal) /\ truthy(p.gas) /\ truthy(p.wind)
    ELSE IF datapoint.zoneKey = "DE" THEN truthy(p.coal) /\ truthy(p.gas) /\ truthy(p.nuclear)
    ELSE TRUE

validate_production(datapoint) ==
    LET p == datapoint.production IN
    IF datapoint.zoneKey \in {"GB", "GR", "PT"} THEN p.coal.some /\ p.gas.some
    ELSE IF datapoint.zoneKey = "BE" THEN p.nuclear.some /\ p.gas.some
    ELSE IF datapoint.zoneKey = "ES" THEN p.coal.some /\ p.nuclear.some
    ELSE IF datapoint.zoneKey = "DK" THEN p.coal.some /\ p.gas.some /\ p.wind.some
    ELSE IF datapoint.zoneKey = "DE" THEN p.coal.some /\ p.gas.some /\ p.nuclear.some
    ELSE TRUE

(***************************************************************************)
(* Helpers of the fetch operations.                                        *)
(***************************************************************************)
\* timedelta.seconds of a difference of d minutes: the seconds within the day, 0..86399
TimedeltaSeconds(d) == (d * 60) % 86400

closest_in_time_key(x, target_datetime) == Abs(TimedeltaSeconds(x.datetime - target_datetime))

\* sorted(data, key=closest_in_time_key)[0]: the first record of the least key
MostRelevant(data, target_datetime) ==
    LET least == Min({closest_in_time_key(data[i], target_datetime) : i \in 1..Len(data)})
    IN data[Min({i \in 1..Len(data) : closest_in_time_key(data[i], target_datetime) = least})]

\* the filter "x <= arrow.now()" of fetch_production and fetch_exchange
NotInFuture_Dropped(x, at) == TRUE
NotInFuture(x, at) == x <= at

\* sorted(set(dates), reverse=True)
RECURSIVE SortedDescending(_)
SortedDescending(dates) ==
    IF dates = {} THEN <<>>
    ELSE With(Max(dates), LAMBDA m :
              <<m>> \o With(dates \ {m}, LAMBDA rest : SortedDescending(rest)))

\* list(filter(pred, list)) for the records that satisfy validate_production
RECURSIVE FilterValid(_)
FilterValid(data) ==
    IF data = <<>> THEN <<>>
    ELSE IF validate_production(Head(data))
         THEN <<Head(data)>> \o FilterValid(Tail(data))
         ELSE FilterValid(Tail(data))

\* what a fetch operation does: its result and the queries it issued
Outcome(result, queries) == [ret |-> result, issued |-> queries]

\* an optional target_datetime
NoTarget == [given |-> FALSE, at |-> 0]
Target(t) == [given |-> TRUE, at |-> t]

(***************************************************************************)
(* The fetch operations: each gives its result and the queries it issued.  *)
(* answers maps the parameters of a query to the platform's response.      *)
(***************************************************************************)
ConsumptionRecord(zone_key, dt, quantity) ==
    [zoneKey |-> zone_key, datetime |-> dt, consumption |-> quantity, source |-> "entsoe.eu"]

\* the loop of fetch_consumption under target_datetime: a strictly smaller distance replaces
ClosestIndex(datetimes, target_datetime) ==
    LET dist == [i \in 1..Len(datetimes) |-> Abs(TimedeltaSeconds(datetimes[i] - target_datetime))]
    IN Min({i \in 1..Len(datetimes) : \A j \in 1..Len(datetimes) : dist[i] <= dist[j]})

\* fetch_consumption from "if parsed:" on
ConsumptionAssemble(zone_key, target_datetime, target_datetime_range, parsed) ==
    LET quantities == parsed.values
        datetimes == parsed.datetimes
    IN IF Truthy(parsed)
       THEN IF target_datetime.given
            THEN IF ~(Len(datetimes) # 0 /\ Len(quantities) # 0)
                 THEN Raise("AssertionError", <<>>)
                 ELSE LET i == ClosestIndex(datetimes, target_datetime.at) IN
                      Returned("dict", <<ConsumptionRecord(zone_key, datetimes[i], quantities[i])>>)
            ELSE IF target_datetime_range
            THEN Returned("list", [i \in 1..Len(datetimes) |->
                                      ConsumptionRecord(zone_key, datetimes[i], quantities[i])])
            ELSE IF Len(datetimes) = 0
                 THEN Raise("IndexError", <<>>)
                 ELSE Returned("dict", <<ConsumptionRecord(zone_key, datetimes[Len(datetimes)],
                                                           quantities[Len(quantities)])>>)
       ELSE ReturnNone

\* a single query, its decode, and what follows: QueryError and NotImplementedError propagate
SingleQuery(q, queries, Parse(_), Assemble(_)) ==
    IF q.kind = "raise" THEN Outcome(Raise("QueryError", q.msg), queries)
    ELSE With(Parse(q), LAMBDA parsed :
              IF parsed.kind = "NotImplementedError"
              THEN Outcome(Raise("NotImplementedError", parsed.msg), queries)
              ELSE Outcome(Assemble(parsed), queries))

fetch_consumption(zone_key, target_datetime, target_datetime_range, answers) ==
    LET domain == ENTSOE_DOMAIN_MAPPINGS[zone_key] IN
    SingleQuery(query_consumption(answers, domain), <<consumption_params(domain)>>,
                parse_consumption,
                LAMBDA parsed : ConsumptionAssemble(zone_key, target_datetime,
                                                    target_datetime_range, parsed))

\* the loop of fetch_production over the parameter codes from ParameterCodes[i] on: acc is
\* [kind, hashmap, msg, issued], hashmap being production_hashmap as pairs <<datetime, code>>
ProductionResult(kind, hashmap, msg, queries) ==
    [kind |-> kind, hashmap |-> hashmap, msg |-> msg, issued |-> queries]

ProductionQueryStep(answers, domain, k, acc) ==
    LET queries == Append(acc.issued, production_params(k, domain)) IN
    With(query_production(answers, k, domain), LAMBDA q :
         IF q.kind = "raise" THEN ProductionResult("QueryError", acc.hashmap, q.msg, queries)
         ELSE With(parse_production(q), LAMBDA parsed :
                   IF parsed.kind = "NotImplementedError"
                   THEN ProductionResult("NotImplementedError", acc.hashmap, parsed.msg, queries)
                   ELSE ProductionResult("ok",
                            [p \in DOMAIN acc.hashmap
                                    \cup {<<parsed.datetimes[i], k>> : i \in 1..Len(parsed.datetimes)} |->
                                IF p[2] = k /\ Index(parsed.datetimes, p[1]) > 0
                                THEN parsed.values[Max({i \in 1..Len(parsed.datetimes) :
                                                          parsed.datetimes[i] = p[1]})]
                                ELSE acc.hashmap[p]],
                            <<>>, queries)))

RECURSIVE ProductionQueries(_, _, _, _)
ProductionQueries(answers, domain, i, acc) ==
    IF i > Len(ParameterCodes) \/ acc.kind # "ok" THEN acc
    ELSE With(ProductionQueryStep(answers, domain, ParameterCodes[i], acc),
              LAMBDA next : ProductionQueries(answers, domain, i + 1, next))

\* production_hashmap[d]: the quantity of each code that reported at d
AtDate(hashmap, d) ==
    [k \in {p[2] : p \in {x \in DOMAIN hashmap : x[1] = d}} |-> hashmap[<<d, k>>]]

\* "len(production_hashmap[d].keys()) == max_counts": the date is fully observed
FullyObserved_Any(count, max_counts) == TRUE
FullyObserved(count, max_counts) == count = max_counts

\* fetch_production from "Remove all dates in the future" on
ProductionAssemble(zone_key, target_datetime, production_hashmap, at) ==
    LET all_dates == {p[1] : p \in DOMAIN production_hashmap}
        count == [d \in all_dates |-> Cardinality(DOMAIN AtDate(production_hashmap, d))]
    IN With({d \in all_dates : NotInFuture(d, at)}, LAMBDA not_future :
       IF not_future = {} THEN ReturnNone
       ELSE With(Max({count[d] : d \in not_future}), LAMBDA max_counts :
            With(SortedDescending({d \in not_future : FullyObserved(count[d], max_counts)}),
                 LAMBDA production_dates :
            With([i \in 1..Len(production_dates) |->
                     ProductionRecord(zone_key, production_dates[i],
                                      AtDate(production_hashmap, production_dates[i]))],
                 LAMBDA data :
            With(FilterValid(data), LAMBDA to_return :
                 IF ~target_datetime.given THEN Returned("list", to_return)
                 ELSE IF Len(to_return) = 0 THEN ReturnNone
                 ELSE Returned("list", <<MostRelevant(to_return, target_datetime.at)>>))))))

fetch_production(zone_key, target_datetime, answers, at) ==
    LET domain == ENTSOE_DOMAIN_MAPPINGS[zone_key] IN
    With(ProductionQueries(answers, domain, 1, ProductionResult("ok", <<>>, <<>>, <<>>)),
         LAMBDA h :
         IF h.kind # "ok" THEN Outcome(Raise(h.kind, h.msg), h.issued)
         ELSE Outcome(ProductionAssemble(zone_key, target_datetime, h.hashmap, at), h.issued))

\* zone_key1[0] == sorted_zone_keys: a character of a string against a list, never equal
FirstCharEqualsList(zone_key1, sorted_zone_keys) == FALSE

ExchangeRecord(key, exchange_date, net_flow, zone_key1, sorted_zone_keys) ==
    [sortedZoneKeys |-> key,
     datetime |-> exchange_date,
     netFlow |-> IF FirstCharEqualsList(zone_key1, sorted_zone_keys)
                 THEN net_flow ELSE -1 * net_flow,
     source |-> "entsoe.eu"]

\* exchange_hashmap: each datetime of the lists with its quantity (a later index overwrites)
HashmapOf(parsed) ==
    [d \in {parsed.datetimes[i] : i \in 1..Len(parsed.datetimes)} |->
        parsed.values[Max({i \in 1..Len(parsed.datetimes) : parsed.datetimes[i] = d})]]

\* the two queries and decodes shared by fetch_exchange and fetch_exchange_forecast;
\* forecast chooses query_exchange_forecast.  Gives [kind, hashmap, msg, issued].
ExchangeHashmap(domain1, domain2, forecast, answers) ==
    LET query(a, b) == IF forecast THEN query_exchange_forecast(answers, a, b)
                                   ELSE query_exchange(answers, a, b)
        params(a, b) == IF forecast THEN exchange_forecast_params(a, b)
                                    ELSE exchange_params(a, b)
        one == <<params(domain1, domain2)>>
        both == <<params(domain1, domain2), params(domain2, domain1)>>
    IN With(query(domain1, domain2), LAMBDA q1 :
       IF q1.kind = "raise" THEN ProductionResult("QueryError", <<>>, q1.msg, one)
       ELSE With(parse_exchange(q1, TRUE, <<>>, <<>>), LAMBDA parsed1 :
       IF parsed1.kind = "NotImplementedError"
       THEN ProductionResult("NotImplementedError", <<>>, parsed1.msg, one)
       ELSE IF ~Truthy(parsed1) THEN ProductionResult("ok", <<>>, <<>>, one)
       ELSE With(query(domain2, domain1), LAMBDA q2 :
       IF q2.kind = "raise" THEN ProductionResult("QueryError", <<>>, q2.msg, both)
       ELSE With(parse_exchange(q2, FALSE, parsed1.values, parsed1.datetimes), LAMBDA parsed2 :
       IF parsed2.kind = "NotImplementedError"
       THEN ProductionResult("NotImplementedError", <<>>, parsed2.msg, both)
       ELSE IF ~Truthy(parsed2) THEN ProductionResult("ok", <<>>, <<>>, both)
       ELSE ProductionResult("ok", HashmapOf(parsed2), <<>>, both)))))

\* the records of an exchange fetch, latest first
ExchangeData(key, exchange_dates, exchange_hashmap, zone_key1, sorted_zone_keys) ==
    [i \in 1..Len(exchange_dates) |->
        ExchangeRecord(key, exchange_dates[i], exchange_hashmap[exchange_dates[i]],
                       zone_key1, sorted_zone_keys)]

fetch_exchange(zone_key1, zone_key2, target_datetime, answers, at) ==
    LET sorted_zone_keys == SortedZoneKeys(zone_key1, zone_key2)
        key == sorted_zone_keys
        domain1 == IF HasDomainOverride(key) THEN ENTSOE_EXCHANGE_DOMAIN_OVERRIDE(key)[1]
                   ELSE ENTSOE_DOMAIN_MAPPINGS[zone_key1]
        domain2 == IF HasDomainOverride(key) THEN ENTSOE_EXCHANGE_DOMAIN_OVERRIDE(key)[2]
                   ELSE ENTSOE_DOMAIN_MAPPINGS[zone_key2]
    IN With(ExchangeHashmap(domain1, domain2, FALSE, answers), LAMBDA h :
       IF h.kind # "ok" THEN Outcome(Raise(h.kind, h.msg), h.issued)
       ELSE With(SortedDescending({d \in DOMAIN h.hashmap : NotInFuture(d, at)}),
                 LAMBDA exchange_dates :
            IF Len(exchange_dates) = 0 THEN Outcome(ReturnNone, h.issued)
            ELSE With(ExchangeData(key, exchange_dates, h.hashmap, zone_key1, sorted_zone_keys),
                      LAMBDA data :
                 IF target_datetime.given
                 THEN Outcome(Returned("list", <<MostRelevant(data, target_datetime.at)>>), h.issued)
                 ELSE Outcome(Returned("list", data), h.issued))))

NotYetAble ==
    <<"This", "parser", "is", "not", "yet", "able", "to", "parse", "past", "dates">>

fetch_exchange_forecast(zone_key1, zone_key2, target_datetime, answers) ==
    LET domain1 == ENTSOE_DOMAIN_MAPPINGS[zone_key1]
        domain2 == ENTSOE_DOMAIN_MAPPINGS[zone_key2]
        sorted_zone_keys == SortedZoneKeys(zone_key1, zone_key2)
    IN IF target_datetime.given
       THEN Outcome(Raise("NotImplementedError", NotYetAble), <<>>)
       ELSE With(ExchangeHashmap(domain1, domain2, TRUE, answers), LAMBDA h :
            IF h.kind # "ok" THEN Outcome(Raise(h.kind, h.msg), h.issued)
            ELSE With(SortedDescending(DOMAIN h.hashmap), LAMBDA exchange_dates :
                 IF Len(exchange_dates) = 0 THEN Outcome(ReturnNone, h.issued)
                 ELSE Outcome(Returned("list",
                                 ExchangeData(sorted_zone_keys, exchange_dates, h.hashmap,
                                              zone_key1, sorted_zone_keys)),
                              h.issued)))

\* fetch_price from "if parsed:" on
PriceAssemble(zone_key, target_datetime, parsed) ==
    LET data == [i \in 1..Len(parsed.values) |->
                    [zoneKey |-> zone_key, datetime |-> parsed.datetimes[i],
                     currency |-> parsed.currencies[i], price |-> parsed.values[i],
                     source |-> "entsoe.eu"]]
    IN IF Truthy(parsed)
       THEN IF target_datetime.given
            THEN IF Len(data) = 0 THEN Raise("IndexError", <<>>)
                 ELSE Returned("list", <<MostRelevant(data, target_datetime.at)>>)
            ELSE Returned("list", data)
       ELSE ReturnNone

fetch_price(zone_key, target_datetime, answers) ==
    LET domain == ENTSOE_DOMAIN_MAPPINGS[zone_key] IN
    SingleQuery(query_price(answers, domain), <<price_params(domain)>>, parse_price,
                LAMBDA parsed : PriceAssemble(zone_key, target_datetime, parsed))

\* the records of fetch_generation_forecast and fetch_consumption_forecast, from "if parsed:" on
ForecastAssemble(zone_key, parsed) ==
    IF Truthy(parsed)
    THEN Returned("list", [i \in 1..Len(parsed.values) |->
                              [zoneKey |-> zone_key, datetime |-> parsed.datetimes[i],
                               value |-> parsed.values[i], source |-> "entsoe.eu"]])
    ELSE ReturnNone

\* fetch_generation_forecast without the test of target_datetime
fetch_generation_forecast_AnyTarget(zone_key, target_datetime, answers) ==
    LET domain == ENTSOE_DOMAIN_MAPPINGS[zone_key] IN
    SingleQuery(query_generation_forecast(answers, domain),
                <<generation_forecast_params(domain)>>, parse_generation_forecast,
                LAMBDA parsed : ForecastAssemble(zone_key, parsed))

fetch_generation_forecast(zone_key, target_datetime, answers) ==
    LET domain == ENTSOE_DOMAIN_MAPPINGS[zone_key] IN
    IF target_datetime.given
    THEN Outcome(Raise("NotImplementedError", NotYetAble), <<>>)
    ELSE SingleQuery(query_generation_forecast(answers, domain),
                     <<generation_forecast_params(domain)>>, parse_generation_forecast,
                     LAMBDA parsed : ForecastAssemble(zone_key, parsed))

fetch_consumption_forecast(zone_key, target_datetime, answers) ==
    LET domain == ENTSOE_DOMAIN_MAPPINGS[zone_key] IN
    IF target_datetime.given
    THEN Outcome(Raise("NotImplementedError", NotYetAble), <<>>)
    ELSE SingleQuery(query_consumption_forecast(answers, domain),
                     <<consumption_forecast_params(domain)>>, parse_consumption_forecast,
                     LAMBDA parsed : ForecastAssemble(zone_key, parsed))

(***************************************************************************)
(* The inputs the model draws.                                             *)
(***************************************************************************)
\* the instant of the fetch: points at positions 1 and 2 of an hourly sub-series that
\* starts at 0 are not in the future, later ones are
FetchInstants == {120}
\* target instants: 01:10 and 02:40
Targets == {NoTarget, Target(70), Target(160)}
Quantities == 0..MaxQuantity

\* a sub-series of n points at positions 1..n, each of quantity q
Series(resolution, start, inBiddingZone, n, q) ==
    TimeSeries(resolution, start, inBiddingZone, [p \in 1..n |-> Point(p, q)])

\* a successful response with one hourly sub-series
HourlyResponses(starts, quantities) ==
    {Response(TRUE, Document(<<>>, <<Series(PT60M, s, TRUE, n, q)>>)) :
        s \in starts, n \in 1..MaxPosition, q \in quantities}

\* a successful response without any sub-series: a bare document, the platform's
\* acknowledgement document, and an empty body
NoSeriesResponses ==
    {Response(TRUE, Document(<<>>, <<>>)),
     Response(TRUE, Document(<<NoMatchingText>>, <<>>)),
     Response(TRUE, EmptyText)}

\* a failed response: with the "no matching data" marker, with another error text,
\* and without any <text> element
NoMatchingResponse == Response(FALSE, Document(<<<<"Reason">> \o NoMatchingText>>, <<>>))
ErrorResponse == Response(FALSE, Document(<<<<"Unauthorized">>>>, <<>>))
BareFailure == Response(FALSE, Document(<<>>, <<>>))
FailedResponses == {NoMatchingResponse, ErrorResponse, BareFailure}

\* a successful response whose sub-series are not all hourly, or not in time order
OtherResponses ==
    {Response(TRUE, Document(<<>>, <<Series(PT15M, 0, TRUE, 2, 1)>>)),
     Response(TRUE, Document(<<>>, <<Series(P1D, 0, TRUE, 1, 1)>>)),
     Response(TRUE, Document(<<>>, <<Series(PT60M, 60, TRUE, 2, 1), Series(PT60M, 0, TRUE, 1, 2)>>))}

SingleQueryResponses ==
    HourlyResponses({0}, Quantities) \cup NoSeriesResponses \cup FailedResponses \cup OtherResponses

SingleZones == {"FR", "GB"}

(***************************************************************************)
(* The state machine: a caller calls one fetch operation.                  *)
(***************************************************************************)
NoCall == [op |-> "", zone_key1 |-> "", zone_key2 |-> "",
           target_datetime |-> NoTarget, target_datetime_range |-> FALSE]
Call(op, zone_key1, zone_key2, target_datetime, target_datetime_range) ==
    [op |-> op, zone_key1 |-> zone_key1, zone_key2 |-> zone_key2,
     target_datetime |-> target_datetime, target_datetime_range |-> target_datetime_range]

Init ==
    /\ pc = "idle"
    /\ call = NoCall
    /\ now = 0
    /\ http = <<>>
    /\ issued = <<>>
    /\ ret = ReturnNone

\* the call ends with the outcome o
Finish(c, at, answers, o) ==
    /\ pc' = "done"
    /\ call' = c
    /\ now' = at
    /\ http' = answers
    /\ issued' = o.issued
    /\ ret' = o.ret

FetchConsumption ==
    /\ pc = "idle"
    /\ \E z \in SingleZones, t \in Targets, range \in BOOLEAN, r \in SingleQueryResponses,
       at \in FetchInstants :
        LET answers == [q \in {consumption_params(ENTSOE_DOMAIN_MAPPINGS[z])} |-> r] IN
        /\ ~(t.given /\ range)
        /\ Finish(Call("fetch_consumption", z, "", t, range), at, answers,
                  fetch_consumption(z, t, range, answers))

FetchPrice ==
    /\ pc = "idle"
    /\ \E z \in SingleZones, t \in Targets, r \in SingleQueryResponses, at \in FetchInstants :
        LET answers == [q \in {price_params(ENTSOE_DOMAIN_MAPPINGS[z])} |-> r] IN
        Finish(Call("fetch_price", z, "", t, FALSE), at, answers, fetch_price(z, t, answers))

FetchGenerationForecast ==
    /\ pc = "idle"
    /\ \E z \in SingleZones, t \in Targets, r \in SingleQueryResponses, at \in FetchInstants :
        LET answers == [q \in {generation_forecast_params(ENTSOE_DOMAIN_MAPPINGS[z])} |-> r] IN
        Finish(Call("fetch_generation_forecast", z, "", t, FALSE), at, answers,
               fetch_generation_forecast(z, t, answers))

FetchConsumptionForecast ==
    /\ pc = "idle"
    /\ \E z \in SingleZones, t \in Targets, r \in SingleQueryResponses, at \in FetchInstants :
        LET answers == [q \in {consumption_forecast_params(ENTSOE_DOMAIN_MAPPINGS[z])} |-> r] IN
        Finish(Call("fetch_consumption_forecast", z, "", t, FALSE), at, answers,
               fetch_consumption_forecast(z, t, answers))

\* the parameter codes that report in the model (gas, hard coal, nuclear, wind onshore);
\* every other code is answered "no matching data"
ReportingCodes == {"B04", "B05", "B14", "B19"}
ProductionZones == {"BE", "DE", "DK", "ES", "FR", "GB", "GR", "PT"}
ProductionTargets == {NoTarget, Target(70)}
\* the points of one call all carry the quantity quantity; one response holds a single
\* point after the fetch instant
ProductionResponses(quantity) ==
    HourlyResponses({0}, {quantity})
        \cup {Response(TRUE, Document(<<>>, <<Series(PT60M, 120, TRUE, 1, quantity)>>)),
              NoMatchingResponse, ErrorResponse}

FetchProduction ==
    /\ pc = "idle"
    /\ \E z \in ProductionZones, t \in ProductionTargets, at \in FetchInstants,
          quantity \in {0, MaxQuantity} :
       \E r \in [ReportingCodes -> ProductionResponses(quantity)] :
        LET domain == ENTSOE_DOMAIN_MAPPINGS[z]
            answers == [q \in {production_params(k, domain) : k \in DOMAIN ENTSOE_PARAMETER_DESC} |->
                           IF q.psrType \in ReportingCodes THEN r[q.psrType]
                           ELSE NoMatchingResponse]
        IN Finish(Call("fetch_production", z, "", t, FALSE), at, answers,
                  fetch_production(z, t, answers, at))

\* the zone pairs the model calls with, in both orders; PL, UA has a domain override
ExchangePairs == {<<"DE", "FR">>, <<"FR", "DE">>, <<"PL", "UA">>, <<"UA", "PL">>}
ExchangeResponses ==
    HourlyResponses({0, 60}, Quantities)
        \cup {NoMatchingResponse, ErrorResponse, Response(TRUE, Document(<<>>, <<>>))}

\* the domains of the two directions of a pair, as fetch_exchange resolves them
ExchangeDomains(zone_key1, zone_key2) ==
    LET key == SortedZoneKeys(zone_key1, zone_key2) IN
    IF HasDomainOverride(key) THEN ENTSOE_EXCHANGE_DOMAIN_OVERRIDE(key)
    ELSE <<ENTSOE_DOMAIN_MAPPINGS[zone_key1], ENTSOE_DOMAIN_MAPPINGS[zone_key2]>>

FetchExchange ==
    /\ pc = "idle"
    /\ \E pair \in ExchangePairs, t \in Targets, at \in FetchInstants,
       r1 \in ExchangeResponses, r2 \in ExchangeResponses :
        LET d == ExchangeDomains(pair[1], pair[2])
            answers == [q \in {exchange_params(d[1], d[2]), exchange_params(d[2], d[1])} |->
                           IF q.in_Domain = d[1] THEN r1 ELSE r2]
        IN Finish(Call("fetch_exchange", pair[1], pair[2], t, FALSE), at, answers,
                  fetch_exchange(pair[1], pair[2], t, answers, at))

FetchExchangeForecast ==
    /\ pc = "idle"
    /\ \E pair \in ExchangePairs, t \in Targets, at \in FetchInstants,
       r1 \in ExchangeResponses, r2 \in ExchangeResponses :
        LET d == <<ENTSOE_DOMAIN_MAPPINGS[pair[1]], ENTSOE_DOMAIN_MAPPINGS[pair[2]]>>
            answers == [q \in {exchange_forecast_params(d[1], d[2]),
                               exchange_forecast_params(d[2], d[1])} |->
                           IF q.in_Domain = d[1] THEN r1 ELSE r2]
        IN Finish(Call("fetch_exchange_forecast", pair[1], pair[2], t, FALSE), at, answers,
                  fetch_exchange_forecast(pair[1], pair[2], t, answers))

(***************************************************************************)
(* A production fetch where only Nuclear (B14) and Solar (B16) report, each *)
(* one hourly sub-series of three points starting 2023-01-01T00:00Z, in a  *)
(* zone without validation rule.                                           *)
(***************************************************************************)
ScenarioZones == {"FR", "PL", "UA"}
ScenarioInstants == {180, 240}
ScenarioQuantities == {10, 20, 30}
\* the answers of the codes that report nothing
ScenarioNothing == {NoMatchingResponse, Response(TRUE, EmptyText), Response(TRUE, Document(<<>>, <<>>))}

ScenarioResponse(quantities) ==
    Response(TRUE, Document(<<>>, <<TimeSeries(PT60M, 0, TRUE,
        [p \in 1..Len(quantities) |-> Point(p, quantities[p])])>>))

FetchProductionScenario ==
    /\ pc = "idle"
    /\ \E z \in ScenarioZones, at \in ScenarioInstants, nothing \in ScenarioNothing,
          nuclear \in [1..3 -> ScenarioQuantities] :
        LET domain == ENTSOE_DOMAIN_MAPPINGS[z]
            answers == [q \in {production_params(k, domain) : k \in DOMAIN ENTSOE_PARAMETER_DESC} |->
                           IF q.psrType = "B14" THEN ScenarioResponse(nuclear)
                           ELSE IF q.psrType = "B16" THEN ScenarioResponse(<<5, 5, 5>>)
                           ELSE nothing]
        IN Finish(Call("fetch_production", z, "", NoTarget, FALSE), at, answers,
                  fetch_production(z, NoTarget, answers, at))

NextScenario == FetchProductionScenario
SpecScenario == Init /\ [][NextScenario]_vars

(***************************************************************************)
(* The production record as a function of the raw per-timestamp map: the   *)
(* initial states draw the map, Aggregate builds the record.               *)
(***************************************************************************)
\* the parameter codes that one category sums, and pumped storage
CodeGroups ==
    {{"B01", "B08", "B17"}, {"B02", "B05"}, {"B03", "B04"}, {"B11", "B12"}, {"B06", "B07"},
     {"B18", "B19"}, {"B09"}, {"B14"}, {"B16"}, {"B13", "B15", "B20"}, {"B10"}}

\* a decoded quantity may be negative: parse_production subtracts outflow sub-series
SignedQuantities == (-MaxQuantity)..MaxQuantity

\* maps over some codes of one group, and at most one further code
RawMaps ==
    UNION {UNION {[present \cup other -> SignedQuantities] :
                    present \in SUBSET g,
                    other \in {{}} \cup {{k} : k \in (DOMAIN ENTSOE_PARAMETER_DESC) \ g}} :
           g \in CodeGroups}

AggregateCall(by_code) ==
    [op |-> "ProductionRecord", zone_key1 |-> "FR", zone_key2 |-> "",
     target_datetime |-> NoTarget, target_datetime_range |-> FALSE, by_code |-> by_code]

InitAggregate ==
    /\ pc = "idle"
    /\ call \in {AggregateCall(m) : m \in RawMaps}
    /\ now = 0
    /\ http = <<>>
    /\ issued = <<>>
    /\ ret = ReturnNone

Aggregate ==
    /\ pc = "idle"
    /\ call.op = "ProductionRecord"
    /\ pc' = "done"
    /\ ret' = Returned("dict", <<ProductionRecord(call.zone_key1, 0, call.by_code)>>)
    /\ UNCHANGED <<call, now, http, issued>>

NextAggregate == Aggregate
SpecAggregate == InitAggregate /\ [][NextAggregate]_vars

(***************************************************************************)
(* The decoders that merge on equal timestamps, as functions of their      *)
(* documents: the initial states draw the documents, the actions decode.   *)
(***************************************************************************)
PT30M == <<"P", "T", "3", "0", "M">>

MergeSeries(inBiddingZone) ==
    {Series(PT60M, s, inBiddingZone, n, q) : s \in {0, 60}, n \in 1..MaxPosition, q \in Quantities}
        \cup {Series(PT30M, 0, inBiddingZone, 2, 1)}

\* documents of one or two sub-series
MergeDocuments(series) ==
    {Document(<<>>, <<a>>) : a \in series} \cup {Document(<<>>, <<a, b>>) : a \in series, b \in series}

ExchangeDecodeCall(import, export, import_first) ==
    [op |-> "parse_exchange", zone_key1 |-> "", zone_key2 |-> "",
     target_datetime |-> NoTarget, target_datetime_range |-> FALSE,
     import |-> import, export |-> export, import_first |-> import_first]

ProductionDecodeCall(text) ==
    [op |-> "parse_production", zone_key1 |-> "", zone_key2 |-> "",
     target_datetime |-> NoTarget, target_datetime_range |-> FALSE, text |-> text]

InitMerge ==
    /\ pc = "idle"
    /\ call \in {ExchangeDecodeCall(a, b, f) :
                    a \in MergeDocuments(MergeSeries(TRUE)),
                    b \in {Document(<<>>, <<x>>) : x \in MergeSeries(TRUE)},
                    f \in BOOLEAN}
                \cup {ProductionDecodeCall(a) :
                        a \in MergeDocuments(MergeSeries(TRUE) \cup MergeSeries(FALSE))}
    /\ now = 0
    /\ http = <<>>
    /\ issued = <<>>
    /\ ret = ReturnNone

\* the import document and the export document decoded into the same accumulators,
\* in the order of fetch_exchange or in the other order
DecodeBoth(import, export, import_first) ==
    IF import_first
    THEN With(parse_exchange(QueryText(import), TRUE, <<>>, <<>>), LAMBDA parsed :
              parse_exchange(QueryText(export), FALSE, parsed.values, parsed.datetimes))
    ELSE With(parse_exchange(QueryText(export), FALSE, <<>>, <<>>), LAMBDA parsed :
              parse_exchange(QueryText(import), TRUE, parsed.values, parsed.datetimes))

DecodeExchange ==
    /\ pc = "idle"
    /\ call.op = "parse_exchange"
    /\ pc' = "done"
    /\ ret' = Returned("lists", <<DecodeBoth(call.import, call.export, call.import_first)>>)
    /\ UNCHANGED <<call, now, http, issued>>

DecodeProduction ==
    /\ pc = "idle"
    /\ call.op = "parse_production"
    /\ pc' = "done"
    /\ ret' = Returned("lists", <<parse_production(QueryText(call.text))>>)
    /\ UNCHANGED <<call, now, http, issued>>

NextMerge == DecodeExchange \/ DecodeProduction
SpecMerge == InitMerge /\ [][NextMerge]_vars

(***************************************************************************)
(* datetime_from_position as a function of its arguments: the initial      *)
(* states draw the start, the position and the resolution string, Resolve  *)
(* calls it.                                                               *)
(***************************************************************************)
\* resolution strings: minute durations, other durations of the platform, and strings
\* that hold a minute duration among other characters
ClockResolutions ==
    {PT60M, PT15M, PT30M, P1D,
     <<"P", "T", "5", "M">>, <<"P", "T", "0", "M">>, <<"P", "T", "1", "2", "0", "M">>,
     <<"P", "T", "1", "H">>, <<"P", "1", "M">>, <<"P", "T", "M">>, <<"P", "T", "6", "0", "S">>,
     <<"P", "T", "1", "5", "M", "3", "0", "S">>, <<"P", "1", "D", "T", "6", "0", "M">>}
ClockStarts == {0, 45, 1440}

ClockCall(start, position, resolution) ==
    [op |-> "datetime_from_position", zone_key1 |-> "", zone_key2 |-> "",
     target_datetime |-> NoTarget, target_datetime_range |-> FALSE,
     start |-> start, position |-> position, resolution |-> resolution]

InitClock ==
    /\ pc = "idle"
    /\ call \in {ClockCall(s, p, r) : s \in ClockStarts, p \in 1..MaxPosition, r \in ClockResolutions}
    /\ now = 0
    /\ http = <<>>
    /\ issued = <<>>
    /\ ret = ReturnNone

\* the instant, or NotImplementedError('Could not recognise resolution %s' % resolution)
Resolved(start, position, resolution) ==
    LET dt == datetime_from_position(start, position, resolution) IN
    IF dt.ok THEN Returned("instant", <<dt.at>>)
    ELSE Raise("NotImplementedError", resolution)

Resolve ==
    /\ pc = "idle"
    /\ call.op = "datetime_from_position"
    /\ pc' = "done"
    /\ ret' = Resolved(call.start, call.position, call.resolution)
    /\ UNCHANGED <<call, now, http, issued>>

NextClock == Resolve
SpecClock == InitClock /\ [][NextClock]_vars

Next ==
    \/ FetchConsumption
    \/ FetchProduction
    \/ FetchExchange
    \/ FetchExchangeForecast
    \/ FetchPrice
    \/ FetchGenerationForecast
    \/ FetchConsumptionForecast

Spec == Init /\ [][Next]_vars

NextProduction == FetchProduction
SpecProduction == Init /\ [][NextProduction]_vars

NextExchange == FetchExchange \/ FetchExchangeForecast
SpecExchange == Init /\ [][NextExchange]_vars

(***************************************************************************)
(* What the platform's answers hold, read off the documents directly.      *)
(***************************************************************************)
\* the response delivers a document to the decoder
Delivers(response) == response.ok /\ ~response.text.empty

\* the points of a response's document, each with the instant it resolves to
ResolvedPoints(response) ==
    LET entries == Entries(response.text.timeseries) IN
    [i \in 1..Len(entries) |->
        [at |-> datetime_from_position(entries[i].start, entries[i].position,
                                       entries[i].resolution).at,
         quantity |-> entries[i].quantity,
         is_production |-> entries[i].is_production]]

\* the sum of the quantities of the points that resolve to exactly t
RECURSIVE SumAt(_, _)
SumAt(points, t) ==
    IF points = <<>> THEN 0
    ELSE (IF Head(points).at = t THEN Head(points).quantity ELSE 0) + SumAt(Tail(points), t)

\* the instants the points of a delivered document resolve to
InstantsOf(response) ==
    IF Delivers(response)
    THEN With(ResolvedPoints(response), LAMBDA points : {points[i].at : i \in 1..Len(points)})
    ELSE {}

Done(ops) == pc = "done" /\ call.op \in ops
ReturnsRecords == ret.kind \in {"list", "dict"}
RetInstants == {ret.records[i].datetime : i \in 1..Len(ret.records)}

(***************************************************************************)
(* C1.  Exchange sign canonicalization: fetch_exchange and                 *)
(* fetch_exchange_forecast report every record under the sorted key A->B   *)
(* with a netFlow that is positive exactly when the quantity imported to A *)
(* exceeds the quantity exported from A at that timestamp, and the call    *)
(* with the zones in the other order gives the same records.               *)
(***************************************************************************)
\* the quantity flowing into in_domain from out_domain at t, as the platform answers
ImportAt(in_domain, out_domain, t) ==
    LET params == IF call.op = "fetch_exchange_forecast"
                  THEN exchange_forecast_params(in_domain, out_domain)
                  ELSE exchange_params(in_domain, out_domain)
    IN IF Delivers(http[params]) THEN SumAt(ResolvedPoints(http[params]), t) ELSE 0

\* the same call with the two zones in the other order, on the same answers
SwappedCall ==
    IF call.op = "fetch_exchange"
    THEN fetch_exchange(call.zone_key2, call.zone_key1, call.target_datetime, http, now)
    ELSE fetch_exchange_forecast(call.zone_key2, call.zone_key1, call.target_datetime, http)

C1_ExchangeSignCanonical ==
    (Done({"fetch_exchange", "fetch_exchange_forecast"}) /\ ReturnsRecords) =>
        LET sorted == SortedZoneKeys(call.zone_key1, call.zone_key2)
            d == IF call.op = "fetch_exchange" THEN ExchangeDomains(sorted[1], sorted[2])
                 ELSE <<ENTSOE_DOMAIN_MAPPINGS[sorted[1]], ENTSOE_DOMAIN_MAPPINGS[sorted[2]]>>
        IN /\ \A i \in 1..Len(ret.records) :
                /\ ret.records[i].sortedZoneKeys = sorted
                /\ ret.records[i].netFlow > 0
                     <=> ImportAt(d[1], d[2], ret.records[i].datetime)
                           > ImportAt(d[2], d[1], ret.records[i].datetime)
           /\ SwappedCall.ret = ret

(***************************************************************************)
(* C2.  Future-date filter.  As claimed: no record that any of the seven   *)
(* fetch operations returns has a timestamp after the fetch instant.  As   *)
(* amended: this holds of fetch_production and fetch_exchange.             *)
(***************************************************************************)
AllFetches ==
    {"fetch_consumption", "fetch_production", "fetch_exchange", "fetch_exchange_forecast",
     "fetch_price", "fetch_generation_forecast", "fetch_consumption_forecast"}

Candidates ==
    CASE call.op = "fetch_consumption" ->
            fetch_consumption(call.zone_key1, NoTarget, TRUE, http).ret.records
      [] call.op = "fetch_production" ->
            fetch_production(call.zone_key1, NoTarget, http, now).ret.records
      [] call.op = "fetch_exchange" ->
            fetch_exchange(call.zone_key1, call.zone_key2, NoTarget, http, now).ret.records
      [] call.op = "fetch_price" ->
            fetch_price(call.zone_key1, NoTarget, http).ret.records

C3_TargetSelectsClosest ==
    (/\ Done({"fetch_consumption", "fetch_production", "fetch_exchange", "fetch_price"})
     /\ call.target_datetime.given
     /\ ReturnsRecords) =>
        \E c \in {Candidates} :
            LET distance(i) == Abs(c[i].datetime - call.target_datetime.at)
                closest == {i \in 1..Len(c) : \A j \in 1..Len(c) : distance(i) <= distance(j)}
            IN closest # {} /\ ret.records = <<c[Min(closest)]>>

(***************************************************************************)
(* C4.  Production completeness filter: every record fetch_production      *)
(* returns has a timestamp whose number of distinct reporting parameter    *)
(* codes equals the maximum of that number over the non-future timestamps  *)
(* of the fetch; the maximum is taken after the future filter and before   *)
(* validation.                                                             *)
(***************************************************************************)
\* the answer to the production query of parameter code k
ProductionAnswer(k) == http[production_params(k, ENTSOE_DOMAIN_MAPPINGS[call.zone_key1])]

\* what the answers of a production fetch hold: codes_at[t], the parameter codes whose
\* answer holds a point at t; retained, the instants not after the fetch instant;
\* survivors, the retained instants of the greatest number of codes
ProductionView ==
    LET codes == DOMAIN ENTSOE_PARAMETER_DESC IN
    With([k \in codes |-> InstantsOf(ProductionAnswer(k))], LAMBDA instants_of :
    With(UNION {instants_of[k] : k \in codes}, LAMBDA instants :
    With([t \in instants |-> {k \in codes : t \in instants_of[k]}], LAMBDA codes_at :
    With({t \in instants : t <= now}, LAMBDA retained :
         [instants |-> instants,
          codes_at |-> codes_at,
          retained |-> retained,
          survivors |-> {t \in retained : \A u \in retained :
                            Cardinality(codes_at[u]) <= Cardinality(codes_at[t])}]))))

C4_CompletenessFilter ==
    (Done({"fetch_production"}) /\ ReturnsRecords) =>
        \E v \in {ProductionView} : RetInstants \subseteq v.survivors

\* records are returned although a retained instant has fewer codes and an instant after
\* the fetch instant has more
C4_FewerCodesDropped ==
    /\ Done({"fetch_production"})
    /\ ReturnsRecords
    /\ RetInstants # {}
    /\ \E v \in {ProductionView} :
          /\ v.retained \ v.survivors # {}
          /\ \E t \in v.instants : \E d \in RetInstants :
                t > now /\ Cardinality(v.codes_at[t]) > Cardinality(v.codes_at[d])

(***************************************************************************)
(* C5.  Absence is not an error: when every query of a fetch operation     *)
(* succeeds with a document without any sub-series, the operation reports  *)
(* no data (None or an empty list) and does not raise.                     *)
(***************************************************************************)
NoSubSeries(response) == response.ok /\ response.text.timeseries = <<>>

C5_AbsenceIsNotAnError ==
    (/\ Done({"fetch_consumption", "fetch_price"})
     /\ \A q \in DOMAIN http : NoSubSeries(http[q])) =>
        \/ ret.kind = "None"
        \/ ret.kind = "list" /\ ret.records = <<>>

(***************************************************************************)
(* C6.  Errors are never downgraded to absence: a failed response whose    *)
(* body does not carry the "No matching data found" marker makes the       *)
(* fetch operation that issued the query raise QueryError.                 *)
(***************************************************************************)
CarriesMarker(response) ==
    \E i \in 1..Len(response.text.texts) : ContainsNoMatching(response.text.texts[i])

C6_FailureRaisesQueryError ==
    (/\ Done(AllFetches)
     /\ \E i \in 1..Len(issued) : ~http[issued[i]].ok /\ ~CarriesMarker(http[issued[i]])) =>
        ret.kind = "raise" /\ ret.exc = "QueryError"

(***************************************************************************)
(* C7.  The series merger accumulates per timestamp in any order: the      *)
(* import and the export document decoded into the same accumulators give, *)
(* in either order, the map from each timestamp to the sum of the imported *)
(* minus the sum of the exported quantities at exactly that timestamp; the *)
(* sub-series of a production document give, in either order, the map from *)
(* each timestamp to the produced minus the consumed quantities at exactly *)
(* that timestamp.                                                         *)
(***************************************************************************)
\* the map of the parallel lists a decoder returned; no timestamp twice
AsMap(parsed) ==
    [t \in {parsed.datetimes[i] : i \in 1..Len(parsed.datetimes)} |->
        parsed.values[CHOOSE i \in 1..Len(parsed.datetimes) : parsed.datetimes[i] = t]]
NoTimestampTwice(parsed) ==
    \A i, j \in 1..Len(parsed.datetimes) : parsed.datetimes[i] = parsed.datetimes[j] => i = j

\* the points of a document, the quantity negated where negate(point) holds
SignedPoints(text, negate(_)) ==
    LET points == ResolvedPoints(Response(TRUE, text)) IN
    [i \in 1..Len(points) |->
        [at |-> points[i].at,
         quantity |-> IF negate(points[i]) THEN 0 - points[i].quantity ELSE points[i].quantity]]

\* the map from each timestamp of the points to the sum of the quantities at it
SumMap(points) ==
    [t \in {points[i].at : i \in 1..Len(points)} |-> SumAt(points, t)]

Reversed(seq) == [i \in 1..Len(seq) |-> seq[Len(seq) + 1 - i]]

C7_MergeOrderIndependent ==
    /\ Done({"parse_exchange"}) =>
        \E merged \in {ret.records[1]} :
            /\ NoTimestampTwice(merged)
            /\ AsMap(merged) = SumMap(SignedPoints(call.import, LAMBDA x : FALSE)
                                        \o SignedPoints(call.export, LAMBDA x : TRUE))
            /\ AsMap(merged) = AsMap(DecodeBoth(call.import, call.export, ~call.import_first))
    /\ Done({"parse_production"}) =>
        \E merged \in {ret.records[1]} :
            /\ NoTimestampTwice(merged)
            /\ AsMap(merged) = SumMap(SignedPoints(call.text, LAMBDA x : ~x.is_production))
            /\ AsMap(merged) =
                 AsMap(parse_production(QueryText(
                     Document(call.text.texts, Reversed(call.text.timeseries)))))

\* the export document was decoded first, and a timestamp received more than one quantity
C7_ExportFirstAccumulated ==
    /\ Done({"parse_exchange"})
    /\ ~call.import_first
    /\ \E t \in InstantsOf(Response(TRUE, call.import)) :
          /\ t \in InstantsOf(Response(TRUE, call.export))
          /\ SumAt(ResolvedPoints(Response(TRUE, call.import)), t) > 0
          /\ SumAt(ResolvedPoints(Response(TRUE, call.export)), t) > 0
    /\ \E t \in InstantsOf(Response(TRUE, call.import)) :
          t \notin InstantsOf(Response(TRUE, call.export))

(***************************************************************************)
(* C8.  Category aggregation.  As claimed: every category of a production  *)
(* record, oil among them, is absent if none of its contributing labels is *)
(* in the raw map, and otherwise the sum of the contributing labels that   *)
(* are in it.  As amended: this holds of every category but oil, and of    *)
(* oil unless the sum is -1.                                               *)
(***************************************************************************)
\* the parameter codes of the labels that contribute to each category
Contributing ==
    [biomass |-> {"B01", "B08", "B17"},
     coal |-> {"B02", "B05"},
     gas |-> {"B03", "B04"},
     hydro |-> {"B11", "B12"},
     nuclear |-> {"B14"},
     oil |-> {"B06", "B07"},
     solar |-> {"B16"},
     wind |-> {"B18", "B19"},
     geothermal |-> {"B09"},
     unknown |-> {"B13", "B15", "B20"}]

RECURSIVE SumOver(_, _)
SumOver(f, keys) ==
    IF keys = {} THEN 0
    ELSE LET k == CHOOSE x \in keys : TRUE IN f[k] + SumOver(f, keys \ {k})

\* the contributing codes of the category that the raw map of the call holds
PresentCodes(category) == Contributing[category] \cap DOMAIN call.by_code

\* absent without a contributing label, the sum of the present labels otherwise
SumOrAbsent(category) ==
    IF PresentCodes(category) = {} THEN None
    ELSE Some(SumOver(call.by_code, PresentCodes(category)))

C8_AbsentOrSumEveryCategory ==
    Done({"ProductionRecord"}) =>
        \A category \in DOMAIN Contributing :
            ret.records[1].production[category] = SumOrAbsent(category)

C8_AbsentOrSumButOilSentinel ==
    Done({"ProductionRecord"}) =>
        \A category \in DOMAIN Contributing :
            (category = "oil" /\ SumOrAbsent("oil") = Some(-1))
                \/ ret.records[1].production[category] = SumOrAbsent(category)

\* one contributing label alone, of value 0, gives the category the value 0
C8_SingleZeroLabelGivesZero ==
    /\ Done({"ProductionRecord"})
    /\ \E category \in DOMAIN Contributing :
          /\ Cardinality(Contributing[category]) > 1
          /\ \E k \in PresentCodes(category) :
                PresentCodes(category) = {k} /\ call.by_code[k] = 0
          /\ ret.records[1].production[category] = Some(0)

(***************************************************************************)
(* C9.  Oil sentinel: with an oil label in the raw map, the oil category   *)
(* is absent when Fossil Oil plus Fossil Oil shale (a missing label        *)
(* counted as 0) is -1, and is that sum otherwise.                         *)
(***************************************************************************)
C9_OilSentinel ==
    (Done({"ProductionRecord"}) /\ PresentCodes("oil") # {}) =>
        ret.records[1].production.oil =
            IF SumOver(call.by_code, PresentCodes("oil")) = -1 THEN None
            ELSE Some(SumOver(call.by_code, PresentCodes("oil")))

\* both oil labels are in the raw map, their sum is -1 and oil is absent
C9_SentinelGivesAbsent ==
    /\ Done({"ProductionRecord"})
    /\ PresentCodes("oil") = {"B06", "B07"}
    /\ call.by_code["B06"] + call.by_code["B07"] = -1
    /\ ret.records[1].production.oil = None

(***************************************************************************)
(* C10.  Production validation: the records fetch_production returns are   *)
(* the survivors of the future and completeness filters that pass the zone *)
(* rule (GB, GR, PT: coal and gas; BE: nuclear and gas; ES: coal and       *)
(* nuclear; DK: coal, gas and wind; DE: coal, gas and nuclear; any other   *)
(* zone: no rule), where a category passes when one of its labels reported *)
(* at the timestamp, whatever its value.                                   *)
(***************************************************************************)
\* the categories the zone's rule requires
RequiredCategories(zone_key) ==
    CASE zone_key \in {"GB", "GR", "PT"} -> {"coal", "gas"}
      [] zone_key = "BE" -> {"nuclear", "gas"}
      [] zone_key = "ES" -> {"coal", "nuclear"}
      [] zone_key = "DK" -> {"coal", "gas", "wind"}
      [] zone_key = "DE" -> {"coal", "gas", "nuclear"}
      [] OTHER -> {}

\* the survivors at which every required category has a reporting label
ValidSurvivors ==
    With(ProductionView, LAMBDA v :
         {t \in v.survivors :
             \A category \in RequiredCategories(call.zone_key1) :
                 Contributing[category] \cap v.codes_at[t] # {}})

C10_ValidationByPresence ==
    (Done({"fetch_production"}) /\ ReturnsRecords) =>
        \E valid \in {ValidSurvivors} :
            IF call.target_datetime.given
            THEN RetInstants \subseteq valid
            ELSE RetInstants = valid

\* a zone with a rule returns a record whose required categories all have the value 0
C10_ZeroValuePasses ==
    /\ Done({"fetch_production"})
    /\ ReturnsRecords
    /\ RequiredCategories(call.zone_key1) # {}
    /\ \E i \in 1..Len(ret.records) :
          \A category \in RequiredCategories(call.zone_key1) :
              ret.records[i].production[category] = Some(0)

(***************************************************************************)
(* C11.  End-to-end scenario 1: Nuclear (B14) reports an hourly sub-series *)
(* starting 2023-01-01T00:00Z with three points, 10, 20, 30 in the         *)
(* scenario, Solar (B16) the same with 5, 5, 5, no other code reports, all *)
(* timestamps are in the past and the zone has no rule.  As claimed:       *)
(* fetch_production yields the records at 00:00, 01:00 and 02:00Z.  As     *)
(* amended: it yields them at 01:00, 02:00 and 03:00Z, the point at        *)
(* position p at the start plus p hours.  In both, the record of position  *)
(* p has the p-th nuclear quantity, solar 5, and every other category      *)
(* absent.                                                                 *)
(***************************************************************************)
\* the nuclear quantities of the answers
ScenarioNuclear ==
    LET points == ProductionAnswer("B14").text.timeseries[1].points IN
    [p \in 1..Len(points) |-> points[p].quantity]

\* the record of the scenario at the instant at, with the quantity nuclear
ScenarioRecord(at, nuclear) ==
    [zoneKey |-> call.zone_key1,
     datetime |-> at,
     production |-> [biomass |-> None, coal |-> None, gas |-> None, hydro |-> None,
                     nuclear |-> Some(nuclear), oil |-> None, solar |-> Some(5),
                     wind |-> None, geothermal |-> None, unknown |-> None],
     storage |-> [hydro |-> None],
     source |-> "entsoe.eu"]

RetRecords == {ret.records[i] : i \in 1..Len(ret.records)}

C11_ScenarioRecordsFromMidnight ==
    Done({"fetch_production"}) =>
        /\ ret.kind = "list"
        /\ Len(ret.records) = 3
        /\ RetRecords = {ScenarioRecord(60 * (p - 1), ScenarioNuclear[p]) : p \in 1..3}

C11_ScenarioRecordsFromOneOClock ==
    Done({"fetch_production"}) =>
        /\ ret.kind = "list"
        /\ Len(ret.records) = 3
        /\ RetRecords = {ScenarioRecord(60 * p, ScenarioNuclear[p]) : p \in 1..3}

\* the scenario's quantities 10, 20, 30 were fetched
C11_ScenarioFetched ==
    /\ Done({"fetch_production"})
    /\ ScenarioNuclear = <<10, 20, 30>>
    /\ Len(ret.records) = 3

(***************************************************************************)
(* C12.  Consumption "latest" selection: without target instant and        *)
(* without range, fetch_consumption returns the single record of the       *)
(* chronologically latest timestamp among all decoded points, in whatever  *)
(* order the sub-series and points appear in the document.                 *)
(***************************************************************************)
C12_LatestIsChronologicallyLatest ==
    (/\ Done({"fetch_consumption"})
     /\ ~call.target_datetime.given
     /\ ~call.target_datetime_range
     /\ ReturnsRecords) =>
        \E instants \in {UNION {InstantsOf(http[q]) : q \in DOMAIN http}} :
            /\ Len(ret.records) = 1
            /\ instants # {}
            /\ ret.records[1].datetime = Max(instants)

(***************************************************************************)
(* C13.  A target instant.  As claimed: every fetch operation, the three   *)
(* forecasts among them, accepts a target instant and then returns no data *)
(* or records, the target instant never by itself making it fail.  As      *)
(* amended: fetch_exchange_forecast, fetch_generation_forecast and         *)
(* fetch_consumption_forecast raise NotImplementedError on a target        *)
(* instant, before any query; fetch_consumption, fetch_production and      *)
(* fetch_exchange accept it and raise only where the same call without     *)
(* target instant raises, returning one record otherwise or no data.       *)
(***************************************************************************)
Forecasts == {"fetch_exchange_forecast", "fetch_generation_forecast", "fetch_consumption_forecast"}

\* the same call on the same answers without target instant
WithoutTarget ==
    CASE call.op = "fetch_consumption" -> fetch_consumption(call.zone_key1, NoTarget, FALSE, http)
      [] call.op = "fetch_production" -> fetch_production(call.zone_key1, NoTarget, http, now)
      [] call.op = "fetch_exchange" ->
            fetch_exchange(call.zone_key1, call.zone_key2, NoTarget, http, now)
      [] call.op = "fetch_exchange_forecast" ->
            fetch_exchange_forecast(call.zone_key1, call.zone_key2, NoTarget, http)
      [] call.op = "fetch_price" -> fetch_price(call.zone_key1, NoTarget, http)
      [] call.op = "fetch_generation_forecast" ->
            fetch_generation_forecast(call.zone_key1, NoTarget, http)
      [] call.op = "fetch_consumption_forecast" ->
            fetch_consumption_forecast(call.zone_key1, NoTarget, http)

C13_TargetNeverFails ==
    (Done(AllFetches) /\ call.target_datetime.given /\ ret.kind = "raise") =>
        WithoutTarget.ret.kind = "raise"

C13_TargetAcceptedButByForecasts ==
    /\ (Done(Forecasts) /\ call.target_datetime.given) =>
          /\ ret.kind = "raise"
          /\ ret.exc = "NotImplementedError"
          /\ issued = <<>>
    /\ (Done({"fetch_consumption", "fetch_production", "fetch_exchange"})
            /\ call.target_datetime.given) =>
          /\ ret.kind = "raise" => WithoutTarget.ret.kind = "raise"
          /\ ReturnsRecords => Len(ret.records) = 1

\* a forecast whose answer holds points raised on the target instant
C13_ForecastRefusedTarget ==
    /\ Done(Forecasts)
    /\ call.target_datetime.given
    /\ ret.exc = "NotImplementedError"
    /\ \A q \in DOMAIN http : InstantsOf(http[q]) # {}

(***************************************************************************)
(* C14.  Query sequencing: an exchange or exchange-forecast fetch issues   *)
(* exactly two queries, the import direction and then the reverse          *)
(* direction, whatever the first query returns short of an error; a        *)
(* production fetch issues one query per parameter code, in sequence, and  *)
(* an error raised by one of its queries aborts the fetch with that error. *)
(***************************************************************************)
\* the query of this response raises QueryError
AnswersError(response) ==
    /\ ~response.ok
    /\ response.text.texts # <<>>
    /\ ~ContainsNoMatching(response.text.texts[1])

\* the two queries of the exchange fetch of the call, import direction first
ExchangeQueries ==
    IF call.op = "fetch_exchange"
    THEN LET d == ExchangeDomains(call.zone_key1, call.zone_key2)
         IN <<exchange_params(d[1], d[2]), exchange_params(d[2], d[1])>>
    ELSE LET d == <<ENTSOE_DOMAIN_MAPPINGS[call.zone_key1], ENTSOE_DOMAIN_MAPPINGS[call.zone_key2]>>
         IN <<exchange_forecast_params(d[1], d[2]), exchange_forecast_params(d[2], d[1])>>

C14_QuerySequencing ==
    /\ (/\ \/ Done({"fetch_exchange"})
           \/ Done({"fetch_exchange_forecast"}) /\ ~call.target_datetime.given
        /\ ~AnswersError(http[ExchangeQueries[1]])) =>
            issued = ExchangeQueries
    /\ Done({"fetch_production"}) =>
        /\ \A i \in 1..Len(issued) :
              issued[i] = production_params(ParameterCodes[i],
                                            ENTSOE_DOMAIN_MAPPINGS[call.zone_key1])
        /\ (\E q \in DOMAIN http : AnswersError(http[q])) =>
              ret.kind = "raise" /\ ret.exc = "QueryError"
        /\ ret.kind # "raise" => Len(issued) = Len(ParameterCodes)

(***************************************************************************)
(* C15.  Exchange merge result: after the import document and then the     *)
(* reverse document are decoded into the same accumulators, the value at   *)
(* every timestamp is the sum of the import quantities at it minus the sum *)
(* of the export quantities at it; a timestamp of one direction only keeps *)
(* its signed value, the timestamps are pairwise distinct, and the entries *)
(* of the import document keep their places.                               *)
(***************************************************************************)
ImportSum(t) == SumAt(ResolvedPoints(Response(TRUE, call.import)), t)
ExportSum(t) == SumAt(ResolvedPoints(Response(TRUE, call.export)), t)
ImportInstants == InstantsOf(Response(TRUE, call.import))
ExportInstants == InstantsOf(Response(TRUE, call.export))

C15_ExchangeMergeResult ==
    (Done({"parse_exchange"}) /\ call.import_first) =>
        \E merged \in {ret.records[1]} :
        \E imported \in {parse_exchange(QueryText(call.import), TRUE, <<>>, <<>>)} :
            /\ merged.kind = "lists"
            /\ Len(merged.values) = Len(merged.datetimes)
            /\ {merged.datetimes[i] : i \in 1..Len(merged.datetimes)}
                  = ImportInstants \cup ExportInstants
            /\ \A i \in 1..Len(merged.datetimes) :
                  LET t == merged.datetimes[i] IN
                  /\ merged.values[i] = ImportSum(t) - ExportSum(t)
                  /\ t \notin ExportInstants => merged.values[i] = ImportSum(t)
                  /\ t \notin ImportInstants => merged.values[i] = 0 - ExportSum(t)
                  /\ \A j \in 1..Len(merged.datetimes) : merged.datetimes[j] = t => j = i
            /\ SubSeq(merged.datetimes, 1, Len(imported.datetimes)) = imported.datetimes

\* import 2 and export 1 at one timestamp give 1, and a timestamp of the export alone
\* has a negative value
C15_ImportMinusExport ==
    /\ Done({"parse_exchange"})
    /\ call.import_first
    /\ \E i \in 1..Len(ret.records[1].datetimes) :
          /\ ImportSum(ret.records[1].datetimes[i]) = 2
          /\ ExportSum(ret.records[1].datetimes[i]) = 1
          /\ ret.records[1].values[i] = 1
    /\ \E i \in 1..Len(ret.records[1].datetimes) :
          /\ ret.records[1].datetimes[i] \notin ImportInstants
          /\ ret.records[1].values[i] < 0

(***************************************************************************)
(* C16.  Resolution clock.  As claimed: for a resolution string that is an *)
(* integer followed by the minute marker ("PT", digits, "M"), the instant  *)
(* is the start plus position times the minute count, strictly increasing  *)
(* in the position by the same step from each position to the next; any    *)
(* other resolution string fails with an error that carries the string.    *)
(* As amended: the minute count is read from the first place of the string *)
(* where "PT", digits and "M" follow one another, whatever surrounds them; *)
(* the instant is the start plus position times that count, the step is    *)
(* that count, and the instant strictly increases when the count is not 0; *)
(* a string without such a place fails with an error that carries it.      *)
(***************************************************************************)
\* the string is "PT", one or more digits, "M", and nothing else
MinuteBased(resolution) ==
    /\ Len(resolution) >= 4
    /\ resolution[1] = "P"
    /\ resolution[2] = "T"
    /\ resolution[Len(resolution)] = "M"
    /\ \A k \in 3..(Len(resolution) - 1) : IsDigit(resolution[k])

MinuteCount(resolution) == ToInt(SubSeq(resolution, 3, Len(resolution) - 1))

\* the instants of the call's start and resolution at the positions p and p + 1
StepAt(p) ==
    Resolved(call.start, p + 1, call.resolution).records[1]
        - Resolved(call.start, p, call.resolution).records[1]

C16_ResolutionClock ==
    Done({"datetime_from_position"}) =>
        IF MinuteBased(call.resolution)
        THEN /\ ret = Returned("instant",
                        <<call.start + call.position * MinuteCount(call.resolution)>>)
             /\ \A p \in 1..call.position : StepAt(p) > 0 /\ StepAt(p) = StepAt(1)
        ELSE ret = Raise("NotImplementedError", call.resolution)

\* the last index of the run of digits that starts at index i (i - 1 without a digit at i)
DigitRunEnd(resolution, i) ==
    Max({i - 1} \cup {j \in i..Len(resolution) : \A k \in i..j : IsDigit(resolution[k])})

\* "PT", digits and "M" follow one another from index i on
MinutesAt(resolution, i) ==
    /\ i + 1 <= Len(resolution)
    /\ resolution[i] = "P"
    /\ resolution[i + 1] = "T"
    /\ DigitRunEnd(resolution, i + 2) >= i + 2
    /\ DigitRunEnd(resolution, i + 2) + 1 <= Len(resolution)
    /\ resolution[DigitRunEnd(resolution, i + 2) + 1] = "M"

MinutePlaces(resolution) == {i \in 1..Len(resolution) : MinutesAt(resolution, i)}

\* the minute count at the first such place
FirstMinuteCount(resolution) ==
    LET i == Min(MinutePlaces(resolution)) IN
    ToInt(SubSeq(resolution, i + 2, DigitRunEnd(resolution, i + 2)))

C16_ResolutionClockBySearch ==
    Done({"datetime_from_position"}) =>
        IF MinutePlaces(call.resolution) # {}
        THEN /\ ret = Returned("instant",
                        <<call.start + call.position * FirstMinuteCount(call.resolution)>>)
             /\ \A p \in 1..call.position :
                   /\ StepAt(p) = FirstMinuteCount(call.resolution)
                   /\ FirstMinuteCount(call.resolution) # 0 => StepAt(p) > 0
        ELSE ret = Raise("NotImplementedError", call.resolution)

\* a string that holds more than a minute duration resolved by the minutes it holds
C16_ResolvedBySearch ==
    /\ Done({"datetime_from_position"})
    /\ ret.kind = "instant"
    /\ ~MinuteBased(call.resolution)
    /\ ret.records[1] > call.start

(***************************************************************************)
(* C17.  QueryError attribution: when a query fails with QueryError, the   *)
(* message names the query operation that was called, together with the    *)
(* text the response embeds.                                               *)
(***************************************************************************)
\* the query operation each fetch operation calls
QueryOperation ==
    [fetch_consumption |-> "query_consumption",
     fetch_production |-> "query_production",
     fetch_exchange |-> "query_exchange",
     fetch_exchange_forecast |-> "query_exchange_forecast",
     fetch_price |-> "query_price",
     fetch_generation_forecast |-> "query_generation_forecast",
     fetch_consumption_forecast |-> "query_consumption_forecast"]

C17_QueryErrorNamesItsQuery ==
    (Done(AllFetches) /\ ret.kind = "raise" /\ ret.exc = "QueryError") =>
        /\ issued # <<>>
        /\ AnswersError(http[issued[Len(issued)]])
        /\ ret.msg = <<QueryOperation[call.op]>> \o http[issued[Len(issued)]].text.texts[1]

====
